---------------------------- MODULE Spec2Model ----------------------------
(***************************************************************************)
(* A model of csrc/stream_attn/fmha_api.cpp: the host side of the fused    *)
(* multi-head attention forward pass (mha_fwd and set_params).             *)
(*                                                                         *)
(* Every invocation of mha_fwd is a "call".  Calls run on independent host *)
(* threads and share one random generator (its counter                     *)
(* philox_offset_per_thread_ and its mutex_).  A call walks through the    *)
(* statements of mha_fwd in program order; the statements that touch only  *)
(* the call's own data are grouped into one step per phase of the function *)
(* (validation, planning, allocation, set_params, configure pass, the      *)
(* locked counter reservation, compute launch, return).                    *)
(***************************************************************************)
EXTENDS Integers, Sequences, FiniteSets

\* ------------------------------------------------------------------ bounds

\* Number of concurrent invocations of mha_fwd.
NumCalls == 2

\* Largest caller-supplied max_seq_len of the planner specification.
MaxSeqLen == 520

\* Largest number of random draws per thread a configure pass reports.
MaxElts == 2

\* p_dropout ranges over the multiples of 2^-PBits (all exact in binary32).
PBits == 4

PDen == 2 ^ PBits

Calls == 1 .. NumCalls

\* --------------------------------------------------------- the tile planner

\* int base_N = head_size == 128 ? 128 : 256;
base_N(head_size) == IF head_size = 128 THEN 128 ELSE 256

\* A faulty seq_len: rounds down to a tile multiple.
seq_len_round_down(max_seq_len, base) ==
    IF max_seq_len <= 128 THEN 128
    ELSE IF max_seq_len <= 256 THEN 256
    ELSE (max_seq_len \div base) * base

\* The rounding of max_seq_len to the working sequence length.  The operands
\* are positive in the last branch, where C's int division is \div, and for
\* max_seq_len <= MaxSeqLen the sum stays far below INT_MAX.
seq_len(max_seq_len, base) ==
    IF max_seq_len <= 128 THEN 128
    ELSE IF max_seq_len <= 256 THEN 256
    ELSE ((max_seq_len + base - 1) \div base) * base

\* A faulty loop: loops on a single full tile too.
loop_inclusive(s, base) == s >= base

\* bool loop = seq_len > base_N;
loop(s, base) == s > base

\* ------------------------------------------------------------- allocations

\* A faulty buffers: s is created whether asked for or not.
buffers_always_s(return_softmax, lp) ==
    {"ctx", "ctx2", "softmax_lse", "s"}
        \cup (IF lp THEN {"o_tmp", "o2_tmp"} ELSE {})

\* The tensors mha_fwd creates with torch::empty.
buffers(return_softmax, lp) ==
    {"ctx", "ctx2", "softmax_lse"}
        \cup (IF lp THEN {"o_tmp", "o2_tmp"} ELSE {})
        \cup (IF return_softmax THEN {"s"} ELSE {})

\* The tensors filled when zero_tensors is set.
zero_filled(zero_tensors, return_softmax, lp) ==
    IF zero_tensors
    THEN {"ctx", "ctx2", "softmax_lse"}
             \cup (IF lp THEN {"o_tmp", "o2_tmp"} ELSE {})
             \cup (IF return_softmax THEN {"s"} ELSE {})
    ELSE {}

\* ------------------------------------------------------ dropout thresholds

\* Numbers wider than 31 bits are kept as big-endian limbs of 16 bits.
Limb == 2 ^ 16

\* A faulty Scale32: 2^32.
Scale32_pow2 == <<1, 0, 0>>

\* 4294967295.0 as three limbs.
Scale32 == <<0, 65535, 65535>>

\* 65535.0
Scale16 == 65535

\* k * x for a small k >= 0 and a three-limb x: four limbs.
MulLimbs(k, x) ==
    LET t0 == k * x[3]
        t1 == k * x[2] + (t0 \div Limb)
        t2 == k * x[1] + (t1 \div Limb)
    IN  <<t2 \div Limb, t2 % Limb, t1 % Limb, t0 % Limb>>

\* floor(x / d) for a four-limb x and a small d > 0: four limbs.
DivLimbs(x, d) ==
    LET c3 == x[1]
        c2 == (c3 % d) * Limb + x[2]
        c1 == (c2 % d) * Limb + x[3]
        c0 == (c1 % d) * Limb + x[4]
    IN  <<c3 \div d, c2 \div d, c1 \div d, c0 \div d>>

\* params.p_dropout = 1.f - p_dropout, as the numerator over PDen (the
\* subtraction is exact on the grid of p_dropout).
keep_num(p_num) == PDen - p_num

\* The values an out-of-range conversion to an unsigned type may produce.
UndefinedU32 == {<<0, 0>>, <<65535, 65535>>}

UndefinedU16 == {0, 65535}

\* uint32_t(std::floor(params.p_dropout * 4294967295.0)): the set of values
\* the conversion can produce, each as <<high limb, low limb>>.
p_dropout_in_uint(p_num) ==
    IF keep_num(p_num) < 0 THEN UndefinedU32
    ELSE LET q == DivLimbs(MulLimbs(keep_num(p_num), Scale32), PDen)
         IN  IF q[1] = 0 /\ q[2] = 0 THEN {<<q[3], q[4]>>} ELSE UndefinedU32

\* uint16_t(std::floor(params.p_dropout * 65535.0))
p_dropout_in_uint16_t(p_num) ==
    IF keep_num(p_num) < 0 THEN UndefinedU16
    ELSE LET q == (keep_num(p_num) * Scale16) \div PDen
         IN  IF q < Limb THEN {q} ELSE UndefinedU16

\* A faulty is_dropout: true for p_dropout = 0 too.
is_dropout_nonneg(p_num) == p_num >= 0

\* bool is_dropout = p_dropout > 0.0;
is_dropout(p_num) == p_num > 0

\* ---------------------------------------------------------------- inputs

\* The arguments of one invocation and what the checks of mha_fwd read of
\* them.  cu_seqlens holds the offsets themselves (device memory: the host
\* code reads only their count); p_dropout is p_num / PDen.
DefaultIn ==
    [dev_major      |-> 8,
     qkv_is_cuda    |-> TRUE,
     cu_is_cuda     |-> TRUE,
     qkv_contiguous |-> TRUE,
     cu_contiguous  |-> TRUE,
     cu_dim         |-> 1,
     qkv_dim        |-> 4,
     three          |-> 4,
     cu_seqlens     |-> <<0, 3, 8>>,
     total          |-> 8,
     head_size      |-> 16,
     p_num          |-> 0,
     max_seq_len    |-> 5,
     zero_tensors   |-> FALSE,
     return_softmax |-> FALSE]

\* Invocations that break one tensor precondition each.
BadLayoutInputs ==
    {[DefaultIn EXCEPT !.dev_major = 7],
     [DefaultIn EXCEPT !.qkv_is_cuda = FALSE],
     [DefaultIn EXCEPT !.cu_is_cuda = FALSE],
     [DefaultIn EXCEPT !.qkv_contiguous = FALSE],
     [DefaultIn EXCEPT !.cu_contiguous = FALSE],
     [DefaultIn EXCEPT !.cu_dim = 2],
     [DefaultIn EXCEPT !.qkv_dim = 3],
     [DefaultIn EXCEPT !.three = 3]}

\* Offsets arrays: empty, a single entry (no sequence), and packed batches.
CuChoices == {<<>>, <<0>>, <<0, 1>>, <<0, 300>>, <<0, 3, 8>>, <<0, 200, 500>>}

Last(cu) == IF Len(cu) = 0 THEN 0 ELSE cu[Len(cu)]

HeadChoices == {16, 32, 64, 128, 48}

HintChoices == {0, 1, 128, 129, 256, 257, 513}

\* Invocations of the sequential specification: every combination of the
\* arguments the host code branches on, over small sets.
SeqInputs ==
    BadLayoutInputs \cup
    {[DefaultIn EXCEPT !.cu_seqlens = cu, !.total = t, !.head_size = h,
                       !.p_num = p, !.max_seq_len = m,
                       !.zero_tensors = z, !.return_softmax = r] :
        cu \in CuChoices, t \in {8, 500}, h \in {16, 128, 48},
        p \in {0, PDen \div 2, PDen}, m \in HintChoices,
        z \in BOOLEAN, r \in BOOLEAN}

\* Invocations of the planner specification: every hint up to MaxSeqLen.
PlanInputs ==
    {[DefaultIn EXCEPT !.head_size = h, !.max_seq_len = m, !.p_num = p] :
        h \in HeadChoices, m \in (-1) .. MaxSeqLen, p \in {0, PDen}}
    \cup {[DefaultIn EXCEPT !.p_num = 1]}

\* Invocations of the dropout specification: every p_dropout of the grid up
\* to and just above 1.
DropInputs ==
    {[DefaultIn EXCEPT !.p_num = p, !.head_size = h, !.return_softmax = r] :
        p \in 0 .. (PDen + 1), h \in {16, 128, 48}, r \in BOOLEAN}

\* Invocations of the concurrent specification.
ConcInputs ==
    {[DefaultIn EXCEPT !.p_num = p, !.head_size = h] :
        p \in {0, PDen \div 2, PDen}, h \in {16, 48}}

\* ----------------------------------------------------------------- state

VARIABLES
    call,                       \* call[c]: the locals of invocation c
    philox_offset_per_thread_,  \* the generator's counter
    philox_initial,             \* the counter before any invocation
    mutex_                      \* the generator's mutex: 0, or its holder

vars == <<call, philox_offset_per_thread_, philox_initial, mutex_>>

\* launch_params.params after memset(&params, 0, sizeof(params)).
ZeroParams ==
    [o_tmp_ptr             |-> "null",
     o2_tmp_ptr            |-> "null",
     s_ptr                 |-> "null",
     s                     |-> 0,
     keep_num              |-> 0,
     p_dropout_in_uint     |-> <<0, 0>>,
     p_dropout_in_uint16_t |-> 0,
     philox_args           |-> 0]

NotCalled ==
    [pc               |-> "idle",
     in               |-> DefaultIn,
     batch_size       |-> 0,
     base_N           |-> 0,
     seq_len          |-> 0,
     loop             |-> FALSE,
     allocated        |-> {},
     filled           |-> {},
     params           |-> ZeroParams,
     configure_passes |-> 0,
     elts_per_thread  |-> 0,
     offset_read      |-> 0,
     reservations     |-> 0,
     launches         |-> 0,
     result           |-> <<>>]

InitialOffsets == {0, 4}

Init ==
    /\ call = [c \in Calls |-> NotCalled]
    /\ philox_initial \in InitialOffsets
    /\ philox_offset_per_thread_ = philox_initial
    /\ mutex_ = 0

Shared == <<philox_offset_per_thread_, philox_initial, mutex_>>

\* ------------------------------------------------------------- mha_fwd

\* The caller enters mha_fwd with arguments drawn from Inputs.
Enter(c, Inputs) ==
    /\ call[c].pc = "idle"
    /\ \E in \in Inputs :
         call' = [call EXCEPT ![c].pc = "validate", ![c].in = in]
    /\ UNCHANGED Shared

\* A faulty checks_pass: lets batch_size = 0 through.
checks_pass_nonneg_batch(in) ==
    /\ in.dev_major = 8
    /\ in.qkv_is_cuda
    /\ in.cu_is_cuda
    /\ in.qkv_contiguous
    /\ in.cu_contiguous
    /\ in.cu_dim = 1
    /\ in.qkv_dim = 4
    /\ in.three = 4
    /\ Len(in.cu_seqlens) - 1 >= 0
    /\ in.head_size \in {16, 32, 64, 128}

\* The TORCH_CHECKs up to the head size check.
checks_pass(in) ==
    /\ in.dev_major = 8
    /\ in.qkv_is_cuda
    /\ in.cu_is_cuda
    /\ in.qkv_contiguous
    /\ in.cu_contiguous
    /\ in.cu_dim = 1
    /\ in.qkv_dim = 4
    /\ in.three = 4
    /\ Len(in.cu_seqlens) - 1 > 0
    /\ in.head_size \in {16, 32, 64, 128}

Validate(c) ==
    /\ call[c].pc = "validate"
    /\ call' = [call EXCEPT
                  ![c].pc = IF checks_pass(call[c].in) THEN "plan" ELSE "failed",
                  ![c].batch_size = IF checks_pass(call[c].in)
                                    THEN Len(call[c].in.cu_seqlens) - 1 ELSE 0]
    /\ UNCHANGED Shared

Plan(c) ==
    /\ call[c].pc = "plan"
    /\ LET b == base_N(call[c].in.head_size)
           s == seq_len(call[c].in.max_seq_len, b)
       IN  call' = [call EXCEPT ![c].pc = "allocate",
                                ![c].base_N = b,
                                ![c].seq_len = s,
                                ![c].loop = loop(s, b)]
    /\ UNCHANGED Shared

Allocate(c) ==
    /\ call[c].pc = "allocate"
    /\ call' = [call EXCEPT
                  ![c].pc = "set_params",
                  ![c].allocated = buffers(call[c].in.return_softmax, call[c].loop),
                  ![c].filled = zero_filled(call[c].in.zero_tensors,
                                            call[c].in.return_softmax, call[c].loop)]
    /\ UNCHANGED Shared

\* set_params: the fields the claims read, then TORCH_CHECK(p_dropout < 1.f).
SetParams(c) ==
    /\ call[c].pc = "set_params"
    /\ \E u32 \in p_dropout_in_uint(call[c].in.p_num),
          u16 \in p_dropout_in_uint16_t(call[c].in.p_num) :
         call' = [call EXCEPT
            ![c].pc = IF call[c].in.p_num < PDen THEN "configure" ELSE "failed",
            ![c].params =
                [o_tmp_ptr  |-> IF call[c].loop THEN "o_tmp" ELSE "null",
                 o2_tmp_ptr |-> IF call[c].loop THEN "o2_tmp" ELSE "null",
                 s_ptr      |-> IF call[c].in.return_softmax THEN "s" ELSE "null",
                 s          |-> call[c].seq_len,
                 keep_num   |-> keep_num(call[c].in.p_num),
                 p_dropout_in_uint     |-> u32,
                 p_dropout_in_uint16_t |-> u16,
                 philox_args           |-> 0]]
    /\ UNCHANGED Shared

\* run_fmha_fp16_sm80(launch_params, /*configure=*/true) reports the number
\* of random draws per thread.
elts_per_thread_choices == 0 .. MaxElts

Configure(c) ==
    /\ call[c].pc = "configure"
    /\ \E e \in elts_per_thread_choices :
         call' = [call EXCEPT
            ![c].pc = IF is_dropout(call[c].in.p_num) THEN "lock" ELSE "launch",
            ![c].configure_passes = @ + 1,
            ![c].elts_per_thread = e]
    /\ UNCHANGED Shared

\* A faulty Acquire: does not wait for the mutex.
Acquire_unguarded(c) ==
    /\ call[c].pc = "lock"
    /\ mutex_' = c
    /\ call' = [call EXCEPT ![c].pc = "philox_read"]
    /\ UNCHANGED <<philox_offset_per_thread_, philox_initial>>

\* std::lock_guard<std::mutex> lock(gen->mutex_);
Acquire(c) ==
    /\ call[c].pc = "lock"
    /\ mutex_ = 0
    /\ mutex_' = c
    /\ call' = [call EXCEPT ![c].pc = "philox_read"]
    /\ UNCHANGED <<philox_offset_per_thread_, philox_initial>>

\* gen->philox_cuda_state(counter_offset) offsets the generator's counter by
\* the number of draws per thread and returns the state before the offset:
\* it reads the counter ...
PhiloxRead(c) ==
    /\ call[c].pc = "philox_read"
    /\ call' = [call EXCEPT ![c].pc = "philox_write",
                            ![c].offset_read = philox_offset_per_thread_]
    /\ UNCHANGED Shared

\* ... advance it by counter_offset and hand back the value read.
PhiloxWrite(c) ==
    /\ call[c].pc = "philox_write"
    /\ philox_offset_per_thread_' = call[c].offset_read + call[c].elts_per_thread
    /\ call' = [call EXCEPT ![c].pc = "unlock",
                            ![c].params.philox_args = call[c].offset_read,
                            ![c].reservations = @ + 1]
    /\ UNCHANGED <<philox_initial, mutex_>>

\* A faulty Release: the lock_guard outlives the if block.
Release_at_return(c) ==
    /\ call[c].pc = "unlock"
    /\ call' = [call EXCEPT ![c].pc = "launch"]
    /\ UNCHANGED Shared

\* The closing brace of the if block destroys the lock_guard.
Release(c) ==
    /\ call[c].pc = "unlock"
    /\ mutex_' = 0
    /\ call' = [call EXCEPT ![c].pc = "launch"]
    /\ UNCHANGED <<philox_offset_per_thread_, philox_initial>>

\* run_fmha_fp16_sm80(launch_params, /*configure=*/false)
Launch(c) ==
    /\ call[c].pc = "launch"
    /\ call' = [call EXCEPT ![c].pc = "compute", ![c].launches = @ + 1]
    /\ UNCHANGED Shared

\* std::vector<at::Tensor> result = {ctx, ctx2, softmax_lse}; ... return
Return(c) ==
    /\ call[c].pc = "compute"
    /\ call' = [call EXCEPT
                  ![c].pc = "done",
                  ![c].result = <<"ctx", "ctx2", "softmax_lse">>
                                \o (IF call[c].in.return_softmax
                                    THEN <<"s">> ELSE <<>>)]
    /\ UNCHANGED Shared

\* The statements of mha_fwd after its entry.
Step(c) ==
    \/ Validate(c)
    \/ Plan(c)
    \/ Allocate(c)
    \/ SetParams(c)
    \/ Configure(c)
    \/ Acquire(c)
    \/ PhiloxRead(c)
    \/ PhiloxWrite(c)
    \/ Release(c)
    \/ Launch(c)
    \/ Return(c)

\* Concurrent invocations sharing the default generator.
Next ==
    \E c \in Calls :
        \/ Enter(c, ConcInputs)
        \/ Step(c)

Spec == Init /\ [][Next]_vars

\* One invocation at a time, over the argument combinations.
NextSeq ==
    \/ Enter(1, SeqInputs)
    \/ Step(1)

SpecSeq == Init /\ [][NextSeq]_vars

\* One invocation, over every max_seq_len of the range.
NextPlan ==
    \/ Enter(1, PlanInputs)
    \/ Step(1)

SpecPlan == Init /\ [][NextPlan]_vars

\* One invocation, over every p_dropout of the grid.
NextDrop ==
    \/ Enter(1, DropInputs)
    \/ Step(1)

SpecDrop == Init /\ [][NextDrop]_vars

\* ------------------------------------------------------- reading a state

\* Invocation c has run the planner.
Planned(c) == call[c].base_N > 0

\* Invocation c has created its tensors.
TensorsCreated(c) == "ctx" \in call[c].allocated

\* Invocation c has run the assignments of set_params.
ParamsSet(c) == call[c].params.s > 0

\* Invocation c has started the compute launch.
Launched(c) == call[c].launches > 0

SupportedHead(c) == call[c].in.head_size \in {16, 32, 64, 128}

\* The least multiple of b that is >= m, for m > 0.
CeilMultiple(m, b) ==
    b * (CHOOSE n \in 1 .. (m \div b + 1) : (n - 1) * b < m /\ m <= n * b)

\* The longest sequence an offsets array declares.
MaxLength(cu) ==
    IF Len(cu) < 2 THEN 0
    ELSE LET lens == {cu[i + 1] - cu[i] : i \in 1 .. (Len(cu) - 1)}
         IN  CHOOSE l \in lens : \A k \in lens : k <= l

\* The counter range invocation c reserved.
RangeLo(c) == call[c].params.philox_args

RangeHi(c) == call[c].params.philox_args + call[c].elts_per_thread

RECURSIVE ReservedSum(_)
\* The budgets of the invocations of S that have reserved their range.
ReservedSum(S) ==
    IF S = {} THEN 0
    ELSE LET c == CHOOSE x \in S : TRUE
         IN  (IF call[c].reservations > 0 THEN call[c].elts_per_thread ELSE 0)
                 + ReservedSum(S \ {c})

\* ------------------------------------------------------------------ C1
\* C1: for every supported head_dim and every max_sequence_length >= 1 the
\* planner sets base_tile_width to 128 for head_dim 128 and to 256
\* otherwise; padded_seq_len to 128 up to 128, to 256 up to 256, and to the
\* least multiple of base_tile_width that is >= max_sequence_length above
\* that; and looped exactly when padded_seq_len > base_tile_width.
C1_TilePlanner ==
    \A c \in Calls :
        (Planned(c) /\ SupportedHead(c) /\ call[c].in.max_seq_len >= 1) =>
            LET m == call[c].in.max_seq_len
                b == IF call[c].in.head_size = 128 THEN 128 ELSE 256
            IN  /\ call[c].base_N = b
                /\ call[c].seq_len = IF m <= 128 THEN 128
                                     ELSE IF m <= 256 THEN 256
                                     ELSE CeilMultiple(m, b)
                /\ call[c].loop = (call[c].seq_len > b)

\* A planned call whose hint is not a tile multiple and is rounded up.
C1_Witness ==
    \E c \in Calls :
        /\ Planned(c)
        /\ call[c].in.head_size = 128
        /\ call[c].in.max_seq_len = 385
        /\ call[c].seq_len = 512
        /\ call[c].loop

\* ------------------------------------------------------------------ C2
\* C2 as stated: whatever the offsets and the hint, padded_seq_len is at
\* least the longest sequence the offsets declare, and is a multiple of
\* base_tile_width whenever looped.
C2_Original ==
    \A c \in Calls :
        Planned(c) =>
            /\ call[c].seq_len >= MaxLength(call[c].in.cu_seqlens)
            /\ call[c].loop => call[c].seq_len % call[c].base_N = 0

\* C2 amended: padded_seq_len is at least the caller's hint, hence at
\* least the longest declared sequence whenever the hint is; and it is a
\* multiple of base_tile_width whenever looped.
C2_WorkingShape ==
    \A c \in Calls :
        Planned(c) =>
            /\ call[c].seq_len >= call[c].in.max_seq_len
            /\ call[c].in.max_seq_len >= MaxLength(call[c].in.cu_seqlens)
                   => call[c].seq_len >= MaxLength(call[c].in.cu_seqlens)
            /\ call[c].loop => call[c].seq_len % call[c].base_N = 0

\* A looped call whose hint covers its sequences and is rounded up.
C2_Witness ==
    \E c \in Calls :
        /\ Planned(c)
        /\ call[c].loop
        /\ call[c].in.max_seq_len >= MaxLength(call[c].in.cu_seqlens)
        /\ MaxLength(call[c].in.cu_seqlens) > 256
        /\ call[c].seq_len > call[c].in.max_seq_len

\* ------------------------------------------------------------------ C3
\* C3: when a call fails, none of its device work has been dispatched: no
\* tensor has been filled, no configure pass has run, no counter range has
\* been reserved and no compute launch has started.
C3_FailsBeforeDispatch ==
    \A c \in Calls :
        call[c].pc = "failed" =>
            /\ call[c].filled = {}
            /\ call[c].configure_passes = 0
            /\ call[c].reservations = 0
            /\ call[c].launches = 0

\* ------------------------------------------------------------------ C5
\* C5 as stated: a call with batch_size <= 0, or whose offsets declare a
\* total other than the leading dimension of the packed buffer, returns
\* nothing.
C5_Original ==
    \A c \in Calls :
        (/\ call[c].pc # "idle"
         /\ \/ Len(call[c].in.cu_seqlens) - 1 <= 0
            \/ Last(call[c].in.cu_seqlens) # call[c].in.total)
            => call[c].pc # "done" /\ call[c].result = <<>>

\* C5 amended: a call with batch_size <= 0 fails in validation, before any
\* tensor is created, and returns nothing.
C5_BatchLayout ==
    \A c \in Calls :
        (call[c].pc # "idle" /\ Len(call[c].in.cu_seqlens) - 1 <= 0) =>
            /\ call[c].pc \in {"validate", "failed"}
            /\ call[c].allocated = {}
            /\ call[c].result = <<>>

\* A call that failed on batch_size = 0 alone.
C5_Witness ==
    \E c \in Calls :
        /\ call[c].pc = "failed"
        /\ Len(call[c].in.cu_seqlens) = 1
        /\ call[c].in.head_size = 16
        /\ call[c].in.p_num = 0
        /\ call[c].in.dev_major = 8

\* ------------------------------------------------------------------ C6
\* C6 as stated: the probability matrix s is created, zero-filled, passed
\* as a non-null pointer and appended to the result exactly when
\* return_softmax is set.
C6_Original ==
    \A c \in Calls :
        /\ TensorsCreated(c) =>
               /\ ("s" \in call[c].allocated) = call[c].in.return_softmax
               /\ ("s" \in call[c].filled) = call[c].in.return_softmax
        /\ ParamsSet(c) =>
               (call[c].params.s_ptr # "null") = call[c].in.return_softmax
        /\ call[c].pc = "done" =>
               call[c].result =
                   IF call[c].in.return_softmax
                   THEN <<"ctx", "ctx2", "softmax_lse", "s">>
                   ELSE <<"ctx", "ctx2", "softmax_lse">>
        /\ ~call[c].in.return_softmax => "s" \notin call[c].allocated

\* C6 amended: s is created, passed as a non-null pointer and appended to
\* the result exactly when return_softmax is set, and is zero-filled
\* exactly when return_softmax and zero_tensors are both set; without
\* return_softmax no s exists in any state of the call.
C6_ProbabilityMatrix ==
    \A c \in Calls :
        /\ TensorsCreated(c) =>
               /\ ("s" \in call[c].allocated) = call[c].in.return_softmax
               /\ ("s" \in call[c].filled) =
                      (call[c].in.return_softmax /\ call[c].in.zero_tensors)
        /\ ParamsSet(c) =>
               (call[c].params.s_ptr # "null") = call[c].in.return_softmax
        /\ call[c].pc = "done" =>
               call[c].result =
                   IF call[c].in.return_softmax
                   THEN <<"ctx", "ctx2", "softmax_lse", "s">>
                   ELSE <<"ctx", "ctx2", "softmax_lse">>
        /\ ~call[c].in.return_softmax =>
               /\ "s" \notin call[c].allocated
               /\ "s" \notin call[c].filled
               /\ call[c].params.s_ptr = "null"

\* A call that returned s without having filled it.
C6_Witness ==
    \E c \in Calls :
        /\ call[c].pc = "done"
        /\ call[c].in.return_softmax
        /\ ~call[c].in.zero_tensors
        /\ "s" \in call[c].allocated
        /\ "s" \notin call[c].filled
        /\ Len(call[c].result) = 4

\* ------------------------------------------------------------------ C7
\* C7 as stated: for p_dropout in [0,1) the 32-bit threshold is
\* floor(keep * 2^32) and the 16-bit threshold is floor(keep * 2^16), with
\* keep = 1 - p_dropout.
C7_Original ==
    \A c \in Calls :
        (ParamsSet(c) /\ call[c].in.p_num >= 0 /\ call[c].in.p_num < PDen) =>
            LET k == PDen - call[c].in.p_num
            IN  /\ call[c].params.p_dropout_in_uint = <<(k * Limb) \div PDen, 0>>
                /\ call[c].params.p_dropout_in_uint16_t = (k * Limb) \div PDen

\* C7 amended: the 32-bit threshold is floor(keep * (2^32 - 1)) and the
\* 16-bit threshold is floor(keep * (2^16 - 1)); for a keep probability
\* whose products keep * 2^16 and keep * 2^32 are whole numbers these are
\* keep * 2^32 - 1 and keep * 2^16 - 1.
C7_Thresholds ==
    \A c \in Calls :
        (ParamsSet(c) /\ call[c].in.p_num >= 0 /\ call[c].in.p_num < PDen) =>
            LET k == PDen - call[c].in.p_num
            IN  /\ call[c].params.p_dropout_in_uint =
                       <<(k * Limb) \div PDen - 1, Limb - 1>>
                /\ call[c].params.p_dropout_in_uint16_t = (k * Limb) \div PDen - 1

\* set_params has run with p_dropout = 1/2: thresholds 2^31 - 1, 2^15 - 1.
C7_Witness ==
    \E c \in Calls :
        /\ ParamsSet(c)
        /\ 2 * call[c].in.p_num = PDen
        /\ call[c].params.p_dropout_in_uint = <<32767, 65535>>
        /\ call[c].params.p_dropout_in_uint16_t = 32767

\* ------------------------------------------------------------------ C8
\* C8 as stated: for every supported head_dim and every
\* max_sequence_length <= 256 the call is not looped, creates neither
\* o_tmp nor o2_tmp and passes null temporary pointers.
C8_Original ==
    \A c \in Calls :
        (Planned(c) /\ SupportedHead(c) /\ call[c].in.max_seq_len <= 256) =>
            /\ ~call[c].loop
            /\ call[c].allocated \cap {"o_tmp", "o2_tmp"} = {}
            /\ call[c].params.o_tmp_ptr = "null"
            /\ call[c].params.o2_tmp_ptr = "null"

\* C8 amended: the call is not looped, creates no temporaries and passes
\* null temporary pointers when max_sequence_length <= 128, or when
\* max_sequence_length <= 256 and head_dim is not 128; with head_dim 128
\* and 128 < max_sequence_length <= 256 it is looped, creates o_tmp and
\* o2_tmp and passes both to the kernel.
C8_SingleTile ==
    \A c \in Calls :
        (Planned(c) /\ SupportedHead(c) /\ call[c].in.max_seq_len <= 256) =>
            IF call[c].in.max_seq_len <= 128 \/ call[c].in.head_size # 128
            THEN /\ ~call[c].loop
                 /\ call[c].allocated \cap {"o_tmp", "o2_tmp"} = {}
                 /\ call[c].params.o_tmp_ptr = "null"
                 /\ call[c].params.o2_tmp_ptr = "null"
            ELSE /\ call[c].loop
                 /\ TensorsCreated(c) => {"o_tmp", "o2_tmp"} \subseteq call[c].allocated
                 /\ Launched(c) => /\ call[c].params.o_tmp_ptr = "o_tmp"
                                   /\ call[c].params.o2_tmp_ptr = "o2_tmp"

\* A launched single-tile call on the 256 fast path.
C8_Witness ==
    \E c \in Calls :
        /\ Launched(c)
        /\ call[c].in.head_size = 64
        /\ call[c].in.max_seq_len = 200
        /\ call[c].seq_len = 256
        /\ ~call[c].loop
        /\ call[c].params.o_tmp_ptr = "null"

\* ------------------------------------------------------------------ C4
\* C4 as stated: every call that reaches its compute launch, whatever its
\* p_dropout, has by then read and advanced the generator's counter exactly
\* once, holding the mutex while it did.
C4_Original ==
    \A c \in Calls :
        /\ call[c].pc \in {"launch", "compute", "done"} => call[c].reservations = 1
        /\ call[c].pc \in {"philox_read", "philox_write", "unlock"} => mutex_ = c
        /\ call[c].reservations <= 1

\* C4 amended: a call with p_dropout > 0 that reaches its compute launch
\* has by then read and advanced the counter exactly once, holding the
\* mutex while it did; a call with p_dropout = 0, and a call that fails,
\* never touches the counter.
C4_ReservedOnce ==
    \A c \in Calls :
        /\ call[c].pc \in {"launch", "compute", "done"} =>
               call[c].reservations = IF call[c].in.p_num > 0 THEN 1 ELSE 0
        /\ call[c].pc \in {"philox_read", "philox_write", "unlock"} => mutex_ = c
        /\ call[c].reservations <= 1
        /\ call[c].reservations = 1 => call[c].in.p_num > 0
        /\ call[c].pc = "failed" => call[c].reservations = 0
        /\ Launched(c) /\ call[c].in.p_num > 0 =>
               philox_offset_per_thread_ >= RangeHi(c)

\* A dropout call computing after its one reservation.
C4_Witness ==
    \E c \in Calls :
        /\ call[c].pc = "compute"
        /\ call[c].in.p_num > 0
        /\ call[c].reservations = 1
        /\ philox_offset_per_thread_ > philox_initial

\* ------------------------------------------------------------------ C9
\* C9: a call holds the generator's mutex only between the end of its
\* configure pass and the start of its compute launch, while it reads and
\* advances the counter; it never holds it while its compute launch runs.
C9_LockShortHeld ==
    \A c \in Calls :
        /\ mutex_ = c =>
               /\ call[c].pc \in {"philox_read", "philox_write", "unlock"}
               /\ call[c].configure_passes = 1
               /\ call[c].launches = 0
        /\ call[c].pc \in {"launch", "compute", "done", "failed"} => mutex_ # c

\* One call computes while another holds the mutex.
C9_Witness ==
    \E c \in Calls, d \in Calls :
        /\ c # d
        /\ call[c].pc = "compute"
        /\ call[c].in.p_num > 0
        /\ mutex_ = d
        /\ call[d].pc = "philox_write"

\* ------------------------------------------------------------------ C10
\* C10: the counter ranges [base, base + elts_per_thread) reserved by
\* different calls with p_dropout > 0 are pairwise disjoint, and the counter
\* is always its initial value plus the budgets of the calls that have
\* reserved so far (so, after all calls, plus the sum of their budgets).
C10_DisjointRanges ==
    /\ \A c \in Calls, d \in Calls :
           (c # d /\ call[c].reservations > 0 /\ call[d].reservations > 0) =>
               RangeHi(c) <= RangeLo(d) \/ RangeHi(d) <= RangeLo(c)
    /\ \A c \in Calls :
           call[c].reservations > 0 => RangeLo(c) >= philox_initial
    /\ philox_offset_per_thread_ = philox_initial + ReservedSum(Calls)

\* Every call has returned after reserving a range of its own.
C10_Witness ==
    /\ \A c \in Calls :
           /\ call[c].pc = "done"
           /\ call[c].in.p_num > 0
           /\ call[c].reservations = 1
    /\ \E c \in Calls : RangeLo(c) > philox_initial

=============================================================================
